---- MODULE Spec2Model ----
(***************************************************************************)
(* Synthetic environmental data generator (generate_experimental_data.py)  *)
(* and its verifiers (verify_tasks.py, scripts/verify-task-answers.py),    *)
(* plus the NASA POWER fetch loop (test-data/fetch_2025_data.py).          *)
(*                                                                         *)
(* Numbers.  Real quantities are fixed-point integers in thousandths       *)
(* (12.5 degC is 12500); the AQI, which the generator truncates with       *)
(* int(), is a plain integer.  A Gaussian draw np.random.normal(0, s) is   *)
(* z * s for a level z, and a run draws its levels from {-zcap, 0, zcap}:  *)
(* every value of the generator is monotone in each draw, so the extreme   *)
(* levels are the ones that decide a range or an ordering.  Uniform and    *)
(* exponential draws take the ends and the middle of their interval.       *)
(*                                                                         *)
(* Generator.  The four generation loops range over the same list `dates`; *)
(* iteration i of a loop reads dates[i] and, in the AQI loop, the          *)
(* temperature[i] stored by the first loop, and nothing else.  The model   *)
(* runs the four iterations for date i back to back, in loop order         *)
(* (temperature, aqi, co2, precipitation), before date i+1.  A series is   *)
(* kept as its length, the element appended last and the running results   *)
(* that the self-check section later computes from the whole list          *)
(* (np.argmax(aqi), the February joint count).                             *)
(***************************************************************************)
EXTENDS Integers, Sequences, FiniteSets, TLC

\* ------------------------------------------------------------------ bounds
\* a cell of a verifier input table varies over 0..MaxVal around its base
MaxVal == 2
\* a verifier input file may have its dates shifted by up to MaxShift days
MaxShift == 2
\* largest Gaussian level (in standard deviations) a run may draw
MaxZ == 5
\* largest exponential draw, in multiples of its scale 2.5
MaxExp == 3

\* ------------------------------------------------------- program constants
\* range(100) in `dates`
Horizon == 100

VARIABLES
    pc,          \* position of the generator script
    i,           \* index of the date being generated
    zcap,        \* Gaussian levels of this run are -zcap, 0, zcap
    len,         \* len[s]: number of values appended to series s
    last,        \* the value appended by the latest loop iteration
    temp_i,      \* temperature[i], read by the AQI iteration for date i
    aqi_i,       \* aqi[i], read with precipitation[i] by the T5 count
    aqiMax,      \* aqi[np.argmax(aqi)] over the prefix generated so far
    aqiArgmax,   \* np.argmax(aqi) over the prefix generated so far
    febBoth,     \* February days so far with precipitation > 5 and AQI > 100
    files,       \* CSV files persisted by this run
    printed,     \* report lines printed by this run
    fpc,         \* fetch script: "loop" while the for loop runs, then "done"
    fidx,        \* fetch script: position of the loop in `variables`
    fetched,     \* fetch script: what the source and the disk did to each variable
    out,         \* fetch script: content of each output file, Absent if never opened
    reported,    \* fetch script: the line printed for each variable
    script,      \* verifier: which verifier script runs
    vpc,         \* verifier: position of the script
    frames,      \* verify_tasks.py: the four loaded DataFrames
    data,        \* verify-task-answers.py: the loaded combined table
    verdict,     \* verifier: Status / CORRECT ANSWER printed per task
    lines,       \* verifier: fixed lines printed so far
    runs         \* seeded generation: the state of each of two runs of the generator

genVars == <<pc, i, zcap, len, last, temp_i, aqi_i, aqiMax, aqiArgmax, febBoth, files, printed>>

fetchVars == <<fpc, fidx, fetched, out, reported>>

verVars == <<script, vpc, frames, data, verdict, lines>>

seedVars == <<runs>>

otherThanGen == <<fetchVars, verVars, seedVars>>

otherThanFetch == <<genVars, verVars, seedVars>>

otherThanVer == <<genVars, fetchVars, seedVars>>

otherThanSeed == <<genVars, fetchVars, verVars>>

vars == <<genVars, fetchVars, verVars, seedVars>>

Max(a, b) == IF a >= b THEN a ELSE b
Min(a, b) == IF a <= b THEN a ELSE b

\* Python's int(): truncation toward zero of a value in thousandths
IntOf(x) == IF x >= 0 THEN x \div 1000 ELSE -((-x) \div 1000)

\* ------------------------------------------------------------------- dates
LeapYear(y) == (y % 4 = 0 /\ y % 100 # 0) \/ y % 400 = 0

\* a calendar that takes every year for a leap year
MonthLenLeap(y, m) ==
    IF m = 2 THEN 29 ELSE IF m \in {4, 6, 9, 11} THEN 30 ELSE 31

\* days of month m of year y, as datetime counts them
MonthLen(y, m) ==
    IF m = 2 THEN (IF LeapYear(y) THEN 29 ELSE 28)
    ELSE IF m \in {4, 6, 9, 11} THEN 30 ELSE 31

\* datetime + timedelta(days=1)
NextDay(d) ==
    IF d.day < MonthLen(d.year, d.month) THEN [d EXCEPT !.day = d.day + 1]
    ELSE IF d.month < 12 THEN [d EXCEPT !.month = d.month + 1, !.day = 1]
    ELSE [year |-> d.year + 1, month |-> 1, day |-> 1]

start_date == [year |-> 2023, month |-> 1, day |-> 1]

\* [d, d + 1 day, ..., d + (n-1) days] appended to acc
RECURSIVE DateList(_, _, _)
DateList(acc, d, n) ==
    IF n = 0 THEN acc ELSE DateList(Append(acc, d), NextDay(d), n - 1)

\* dates = [start_date + timedelta(days=i) for i in range(100)];
\* Python's dates[k] is DateAt(k)
dates == DateList(<<>>, start_date, Horizon)

DateAt(k) == dates[k + 1]

\* ------------------------------------------------------------------- draws
Gauss == {-zcap, 0, zcap}

\* np.random.uniform(lo, hi) on [lo, hi), in thousandths
Uniform(lo, hi) == {lo, (lo + hi) \div 2, hi - 1}

\* np.random.random() < 0.15
RainEvent == {TRUE, FALSE}

\* np.random.exponential(2.5)
Exponential == {k * 2500 : k \in 0..MaxExp}

\* 8 * np.sin(k / 7) in thousandths, k = 0..99
Sin8 ==
    <<0, 1139, 2255, 3325, 4327, 5241, 6048, 6732, 7279, 7677,
      7919, 8000, 7918, 7674, 7274, 6726, 6041, 5233, 4318, 3315,
      2245, 1129, -10, -1149, -2264, -3334, -4335, -5248, -6054, -6737,
      -7283, -7680, -7921, -8000, -7916, -7671, -7270, -6721, -6035, -5225,
      -4310, -3306, -2235, -1119, 20, 1159, 2274, 3343, 4344, 5256,
      6061, 6743, 7287, 7683, 7922, 8000, 7915, 7669, 7266, 6715,
      6028, 5218, 4301, 3297, 2226, 1109, -30, -1169, -2284, -3352,
      -4352, -5264, -6068, -6748, -7291, -7686, -7923, -8000, -7913, -7666,
      -7262, -6710, -6021, -5210, -4293, -3288, -2216, -1099, 40, 1179,
      2294, 3361, 4361, 5271, 6074, 6754, 7295, 7688, 7925, 8000>>

\* ------------------------------------------------------- series generation
\* temperature loop body before the clamp: the month branches
TemperatureRaw(k, z) ==
    LET date == DateAt(k)
        day_in_month == date.day - 1
    IN  IF date.month = 1 THEN 5000 + (k * 5000) \div 31 + 1500 * z
        ELSE IF date.month = 2 THEN 10000 + (day_in_month * 5000) \div 28 + 1800 * z
        ELSE IF date.month = 3 THEN 15000 + (day_in_month * 5000) \div 31 + 2000 * z
        ELSE 20000 + 2000 * z

\* the temperature appended without max(0, temp)
TemperatureNoClamp(k, z) == TemperatureRaw(k, z)

\* temperature.append(max(0, temp)) for date k with Gaussian level z
Temperature(k, z) == Max(0, TemperatureRaw(k, z))

\* the uniform draw of the AQI loop body: only the peak days draw one
AqiUniform(k) ==
    LET date == DateAt(k)
    IN  IF date.month = 1 /\ date.day \in 20..25
        THEN (IF date.day \in {21, 22, 23} THEN Uniform(0, 10000)
              ELSE Uniform(-5000, 10000))
        ELSE {0}

\* a peak period whose days 21..23 are not raised above the others
PeakBaseFlat(day, u) == 130000 + u

\* base of a day of the peak period, January 20..25
PeakBase(day, u) == IF day \in {21, 22, 23} THEN 145000 + u ELSE 130000 + u

\* February 12 and 18 left as drawn
ForcedAqiNone(day, v) == v

\* if day in [12, 18]: aqi_val = max(105, aqi_val)
ForcedAqi(day, v) == IF day \in {12, 18} THEN Max(105000, v) ELSE v

\* aqi_val of the AQI loop body for date k: t = temperature[k], uniform
\* draw u (peak days), Gaussian level z
AqiVal(k, t, u, z) ==
    LET date == DateAt(k)
    IN  IF date.month = 1
        THEN LET base == IF date.day \in 20..25 THEN PeakBase(date.day, u)
                         ELSE 150000 - 12 * t
             IN  Max(30000, base + 3000 * z)
        ELSE IF date.month = 2
             THEN ForcedAqi(date.day, Max(30000, 80000 + 25000 * z))
        ELSE IF date.month = 3 THEN Max(30000, 70000 + 10000 * z)
        ELSE Max(30000, 65000 + 8000 * z)

\* aqi.append(int(aqi_val))
Aqi(k, t, u, z) == IntOf(AqiVal(k, t, u, z))

\* CO2 loop body for date k with Gaussian level z
Co2(k, z) == Max(385000, Min(435000, 410000 + Sin8[k + 1] + 4000 * z))

\* a precipitation loop body without the forced rainy days
PrecipDrawsUnforced(k) ==
    {IF e THEN x ELSE y : e \in RainEvent, x \in Exponential, y \in Uniform(0, 500)}

\* the draw the precipitation loop body uses for date k
PrecipDraws(k) ==
    LET date == DateAt(k)
    IN  IF date.month = 2 /\ date.day \in {12, 18} THEN Uniform(6000, 15000)
        ELSE {IF e THEN x ELSE y :
                 e \in RainEvent, x \in Exponential, y \in Uniform(0, 500)}

\* precipitation.append(max(0, precip))
Precipitation(d) == Max(0, d)

\* np.argmax(aqi) after aqi[k] = v is appended: the first index of the
\* largest value, so a later equal value does not move it
ArgmaxStep(k, v) == IF k = 0 \/ v > aqiMax THEN k ELSE aqiArgmax

\* one term of the T5 count: p > 5 and a > 100, on a February index
JointDay(k, p, a) == DateAt(k).month = 2 /\ p > 5000 /\ a > 100

\* the month the self-check's index slices [:31], [31:59], [59:90] take
\* index k to be in
SliceMonth(k) == IF k < 31 THEN 1 ELSE IF k < 59 THEN 2 ELSE IF k < 90 THEN 3 ELSE 4

\* ------------------------------------------------------- generator actions
Series == {"temperature", "aqi", "co2", "precipitation"}

GenInit ==
    /\ pc = "temperature"
    /\ i = 0
    /\ zcap \in 0..MaxZ
    /\ len = [s \in Series |-> 0]
    /\ last = 0
    /\ temp_i = 0
    /\ aqi_i = 0
    /\ aqiMax = 0
    /\ aqiArgmax = 0
    /\ febBoth = 0
    /\ files = {}
    /\ printed = {}

TemperatureStep ==
    /\ pc = "temperature"
    /\ i < Horizon
    /\ \E z \in Gauss :
         /\ temp_i' = Temperature(i, z)
         /\ last' = Temperature(i, z)
    /\ len' = [len EXCEPT !["temperature"] = @ + 1]
    /\ pc' = "aqi"
    /\ UNCHANGED <<i, zcap, aqi_i, aqiMax, aqiArgmax, febBoth, files, printed>>
    /\ UNCHANGED otherThanGen

AqiStep ==
    /\ pc = "aqi"
    /\ \E u \in AqiUniform(i), z \in Gauss :
         LET v == Aqi(i, temp_i, u, z)
         IN  /\ aqi_i' = v
             /\ last' = v
             /\ aqiArgmax' = ArgmaxStep(i, v)
             /\ aqiMax' = IF ArgmaxStep(i, v) = i THEN v ELSE aqiMax
    /\ len' = [len EXCEPT !["aqi"] = @ + 1]
    /\ temp_i' = 0
    /\ pc' = "co2"
    /\ UNCHANGED <<i, zcap, febBoth, files, printed>>
    /\ UNCHANGED otherThanGen

Co2Step ==
    /\ pc = "co2"
    /\ \E z \in Gauss : last' = Co2(i, z)
    /\ len' = [len EXCEPT !["co2"] = @ + 1]
    /\ pc' = "precipitation"
    /\ UNCHANGED <<i, zcap, temp_i, aqi_i, aqiMax, aqiArgmax, febBoth, files, printed>>
    /\ UNCHANGED otherThanGen

PrecipitationStep ==
    /\ pc = "precipitation"
    /\ \E d \in PrecipDraws(i) :
         LET p == Precipitation(d)
         IN  /\ last' = p
             /\ febBoth' = IF JointDay(i, p, aqi_i) THEN febBoth + 1 ELSE febBoth
    /\ len' = [len EXCEPT !["precipitation"] = @ + 1]
    /\ aqi_i' = 0
    /\ i' = i + 1
    /\ pc' = IF i + 1 < Horizon THEN "temperature" ELSE "save"
    /\ UNCHANGED <<zcap, temp_i, aqiMax, aqiArgmax, files, printed>>
    /\ UNCHANGED otherThanGen

\* the order of the four to_csv calls
SaveOrder == <<"temperature.csv", "air_quality.csv", "co2.csv", "precipitation.csv">>

\* df.to_csv(...): the next file is written, or the call raises and the
\* script ends with the traceback; nothing removes the files written before
SaveFile ==
    /\ pc = "save"
    /\ Cardinality(files) < Len(SaveOrder)
    /\ \E ok \in BOOLEAN :
         IF ok
         THEN /\ files' = files \cup {SaveOrder[Cardinality(files) + 1]}
              /\ pc' = IF Cardinality(files) + 1 = Len(SaveOrder) THEN "report" ELSE "save"
         ELSE /\ files' = files
              /\ pc' = "failed"
    /\ UNCHANGED <<i, zcap, len, last, temp_i, aqi_i, aqiMax, aqiArgmax, febBoth, printed>>
    /\ UNCHANGED otherThanGen

\* the VERIFICATION section: every line is printed, whatever was computed
Report ==
    /\ pc = "report"
    /\ printed' = {"DATA GENERATION COMPLETE", "T1 HIGHEST", "T2 NEGATIVE", "T3 ok",
                   "T4 T6 ok", "T5 ok", "All task requirements verified!"}
    /\ pc' = "done"
    /\ UNCHANGED <<i, zcap, len, last, temp_i, aqi_i, aqiMax, aqiArgmax, febBoth, files>>
    /\ UNCHANGED otherThanGen

GenNext ==
    \/ TemperatureStep
    \/ AqiStep
    \/ Co2Step
    \/ PrecipitationStep
    \/ SaveFile
    \/ Report

\* the generator script is not running
GenIdle ==
    /\ pc = "idle"
    /\ i = 0
    /\ zcap = 0
    /\ len = [s \in Series |-> 0]
    /\ last = 0
    /\ temp_i = 0
    /\ aqi_i = 0
    /\ aqiMax = 0
    /\ aqiArgmax = 0
    /\ febBoth = 0
    /\ files = {}
    /\ printed = {}

\* ---------------------------------------------------------- the fetch loop
\* the keys of `variables`, in insertion order
Variables == <<"T2M", "RH2M", "WS10M", "PRECTOTCORR">>

FileOf(v) ==
    IF v = "T2M" THEN "temperature_2025.csv"
    ELSE IF v = "RH2M" THEN "humidity_2025.csv"
    ELSE IF v = "WS10M" THEN "wind_speed_2025.csv"
    ELSE "precipitation_2025.csv"

NameOf(v) ==
    IF v = "T2M" THEN "Temperature"
    ELSE IF v = "RH2M" THEN "Relative Humidity"
    ELSE IF v = "WS10M" THEN "Wind Speed"
    ELSE "Precipitation"

\* a file that was never opened for writing
Absent == [exists |-> FALSE, rows |-> <<>>]

\* a file opened with mode 'w' that holds the rows r
File(r) == [exists |-> TRUE, rows |-> r]

\* the key sets a response may carry, as YYYYMMDD; 20250230 is no date
KeySets == {{20250102, 20250101}, {20250101, 20250230}}

\* datetime.strptime(date_str, '%Y%m%d'): the date, or a ValueError
ValidKey(k) ==
    LET y == k \div 10000
        m == (k \div 100) % 100
        d == k % 100
    IN  m \in 1..12 /\ d >= 1 /\ d <= MonthLen(y, m)

\* date_obj.strftime('%Y-%m-%d'), kept as its three fields
Formatted(k) == <<k \div 10000, (k \div 100) % 100, k % 100>>

\* sorted(param_data.items()): ascending keys (8-digit strings sort as numbers)
RECURSIVE SortedKeys(_)
SortedKeys(K) ==
    IF K = {} THEN <<>>
    ELSE LET m == CHOOSE x \in K : \A y \in K : x <= y
         IN  <<m>> \o SortedKeys(K \ {m})

\* what one iteration meets: the request fails ("neterr"), the JSON lacks
\* the parameter ("nokey"), or it carries the keys `keys`; open() fails or
\* not; `diskRows` is how many writerow calls the disk accepts
Encounters ==
    {[kind |-> k, keys |-> {}, openOk |-> TRUE, diskRows |-> 0] : k \in {"neterr", "nokey"}}
    \cup {[kind |-> "data", keys |-> K, openOk |-> FALSE, diskRows |-> 0] : K \in KeySets}
    \cup {[kind |-> "data", keys |-> K, openOk |-> TRUE, diskRows |-> r] :
             K \in KeySets, r \in 0..3}

\* the rows written by the body of `with open(...)` until it finishes or a
\* writerow / strptime raises: header first, then one row per sorted key
RECURSIVE WriteRows(_, _, _, _)
WriteRows(v, ks, room, acc) ==
    IF ks = <<>> THEN [rows |-> acc, ok |-> TRUE]
    ELSE IF ~ValidKey(Head(ks)) \/ room = 0 THEN [rows |-> acc, ok |-> FALSE]
    ELSE WriteRows(v, Tail(ks), room - 1, Append(acc, <<Formatted(Head(ks)), Head(ks)>>))

\* the try block of one iteration: the file content it leaves and whether it
\* reached the success print
TryBody(v, e) ==
    IF e.kind # "data" THEN [content |-> Absent, ok |-> FALSE]
    ELSE IF ~e.openOk THEN [content |-> Absent, ok |-> FALSE]
    ELSE IF e.diskRows = 0 THEN [content |-> File(<<>>), ok |-> FALSE]
    ELSE LET w == WriteRows(v, SortedKeys(e.keys), e.diskRows - 1,
                            << <<"Date", NameOf(v)>> >>)
         IN  [content |-> File(w.rows), ok |-> w.ok]

\* the complete file for a response with keys K
FullFile(v, K) ==
    << <<"Date", NameOf(v)>> >> \o
    [n \in 1..Cardinality(K) |-> <<Formatted(SortedKeys(K)[n]), SortedKeys(K)[n]>>]

\* an exception that leaves the loop instead of being caught
AfterErrorAbort(idx) == [fpc |-> "done", fidx |-> idx]

\* except Exception: print the error, go on with the next variable
AfterError(idx) == [fpc |-> "loop", fidx |-> idx + 1]

FetchInit ==
    /\ fpc = "loop"
    /\ fidx = 1
    /\ fetched = <<>>
    /\ out = [f \in {FileOf(Variables[n]) : n \in 1..Len(Variables)} |-> Absent]
    /\ reported = <<>>

FetchIdle ==
    /\ fpc = "idle"
    /\ fidx = 1
    /\ fetched = <<>>
    /\ out = <<>>
    /\ reported = <<>>

\* one iteration of `for var_code, (filename, var_name) in variables.items()`
FetchIteration ==
    /\ fpc = "loop"
    /\ fidx <= Len(Variables)
    /\ \E e \in Encounters :
         LET v == Variables[fidx]
             r == TryBody(v, e)
         IN  /\ fetched' = Append(fetched, [var |-> v, met |-> e])
             /\ out' = [out EXCEPT ![FileOf(v)] = r.content]
             /\ reported' = Append(reported, [var |-> v, line |-> IF r.ok THEN "ok" ELSE "error"])
             /\ IF r.ok
                THEN /\ fpc' = "loop"
                     /\ fidx' = fidx + 1
                ELSE /\ fpc' = AfterError(fidx).fpc
                     /\ fidx' = AfterError(fidx).fidx
    /\ UNCHANGED otherThanFetch

\* the loop is exhausted: print "Download complete!"
FetchEnd ==
    /\ fpc = "loop"
    /\ fidx > Len(Variables)
    /\ fpc' = "done"
    /\ UNCHANGED <<fidx, fetched, out, reported>>
    /\ UNCHANGED otherThanFetch

FetchNext ==
    \/ FetchIteration
    \/ FetchEnd

\* ---------------------------------------------------- verifier: statistics
RECURSIVE SumSeq(_)
SumSeq(s) == IF s = <<>> THEN 0 ELSE Head(s) + SumSeq(Tail(s))

\* n * sum(x*y) - sum(x) * sum(y): n^2 times the covariance of x and y
SP(x, y) == Len(x) * SumSeq([k \in 1..Len(x) |-> x[k] * y[k]]) - SumSeq(x) * SumSeq(y)

\* n^2 times the population variance of x
SS(x) == SP(x, x)

\* Series.var() / Series.std() (ddof = 1) of a exceeds that of b; var is
\* SS / (n * n * (n - 1) / n), NaN below two values, and NaN compares False
VarGreater(a, b) ==
    /\ Len(a) >= 2
    /\ Len(b) >= 2
    /\ SS(a) * Len(b) * (Len(b) - 1) > SS(b) * Len(a) * (Len(a) - 1)

\* Pearson r of y against a fixed x, kept as the covariance term and the
\* variance term of y: r = c / sqrt(SS(x) * v)
Corr(x, y) == [c |-> SP(x, y), v |-> SS(y)]

\* r_a < r_b for two correlations against the same x
CorrLess(a, b) ==
    IF a.c < 0 /\ b.c >= 0 THEN TRUE
    ELSE IF a.c >= 0 /\ b.c <= 0 THEN FALSE
    ELSE IF a.c >= 0 THEN a.c * a.c * b.v < b.c * b.c * a.v
    ELSE a.c * a.c * b.v > b.c * b.c * a.v

\* |r_a| > |r_b|
CorrStronger(a, b) == a.c * a.c * b.v > b.c * b.c * a.v

\* x = np.arange(n)
Arange(n) == [k \in 1..n |-> k - 1]

\* stats.linregress(x, y): slope > 0
SlopePositive(y) == SP(Arange(Len(y)), y) > 0

\* stats.linregress(x, y): r_value ** 2 > num / den (r is 0 for a constant y)
RSquaredAbove(y, num, den) ==
    LET x == Arange(Len(y))
    IN  den * SP(x, y) * SP(x, y) > num * SS(x) * SS(y)

\* r_squared > 0.70 and slope > 0
ClearTrend(y) == RSquaredAbove(y, 7, 10) /\ SlopePositive(y)

\* -------------------------------------------------- verifier: input tables
\* the dates of the rows of an input table, as indices into `dates`:
\* Jan 20, Jan 25, Jan 31, Feb 1, Feb 12, Feb 28, Mar 1, Mar 2
BaseDays == <<19, 24, 30, 31, 42, 58, 59, 60>>

Columns == <<"temperature", "aqi", "co2", "precipitation">>

\* the non-constant three-day shapes over 0..MaxVal
Triples == {t \in [1..3 -> 0..MaxVal] : t[1] # t[2] \/ t[2] # t[3]}

Shapes == {<<0, 1, 2>>, <<2, 1, 0>>, <<0, 2, 0>>}

Plus(base, t) == [k \in 1..Len(t) |-> base + t[k]]

Times(f, t) == [k \in 1..Len(t) |-> f * t[k]]

\* eight-day profiles: rising, alternating, falling, late step
Profiles ==
    {<<0, 3, 6, 9, 12, 15, 18, 21>>, <<1, 0, 1, 0, 1, 0, 1, 0>>,
     <<7, 6, 5, 4, 3, 2, 1, 0>>, <<0, 0, 1, 0, 0, 1, 12, 14>>}

Table(t, a, c, p) == [temperature |-> t, aqi |-> a, co2 |-> c, precipitation |-> p]

\* January varies: AQI, CO2 and precipitation against a rising temperature
JanTables ==
    {Table(<<0, 6, 12, 12, 13, 15, 18, 24>>,
           Plus(99, a) \o <<99, 101, 99, 99, 99>>,
           Plus(400, c) \o <<401, 400, 401, 400, 401>>,
           Plus(4, p) \o <<5, 6, 5, 4, 4>>) : a \in Triples, c \in Triples, p \in Shapes}

\* February varies: AQI around 100, precipitation around 5
FebTables ==
    {Table(<<0, 6, 12>> \o Plus(12, t) \o <<18, 24>>,
           <<101, 100, 99>> \o Plus(99, a) \o <<99, 99>>,
           <<400, 401, 400, 401, 400, 401, 400, 401>>,
           <<4, 5, 4>> \o Plus(4, p) \o <<4, 4>>) : t \in Shapes, a \in Triples, p \in Triples}

\* the trend over the whole table varies, per variable
TrendTables == {Table(t, a, c, p) : t \in Profiles, a \in Profiles, c \in Profiles, p \in Profiles}

Tables == JanTables \cup FebTables \cup TrendTables

\* a DataFrame with columns Date and value: row k holds day days[k]
Frame(days, col) == [k \in 1..Len(col) |-> [date |-> DateAt(days[k]), value |-> col[k]]]

\* the days of a file whose dates are shifted by s and that has one row
\* less (delta = -1) or one row more (delta = 1) than the others
FileDays(s, delta) ==
    LET shifted == [k \in 1..Len(BaseDays) |-> BaseDays[k] + s]
    IN  IF delta = -1 THEN SubSeq(shifted, 1, Len(shifted) - 1)
        ELSE IF delta = 1 THEN Append(shifted, shifted[Len(shifted)] + 1)
        ELSE shifted

FileCol(col, delta) ==
    IF delta = -1 THEN SubSeq(col, 1, Len(col) - 1)
    ELSE IF delta = 1 THEN Append(col, col[Len(col)])
    ELSE col

\* the four files of table t, the file of variable `which` written with
\* shifted dates and a different row count
Frames(t, which, s, delta) ==
    [v \in {"temperature", "aqi", "co2", "precipitation"} |->
        IF v = which THEN Frame(FileDays(s, delta), FileCol(t[v], delta))
        ELSE Frame(BaseDays, t[v])]

\* the combined table of verify-task-answers.py
Combined(t) ==
    [k \in 1..Len(BaseDays) |->
        [date |-> DateAt(BaseDays[k]), temperature |-> t.temperature[k], aqi |-> t.aqi[k],
         co2 |-> t.co2[k], precipitation |-> t.precipitation[k]]]

\* ------------------------------------------------- verifier: verify_tasks.py
Tasks == {"T1", "T2", "T3", "T4", "T5", "T6"}

\* what a task printed: a Status (verify_tasks.py) or a CORRECT ANSWER
\* (verify-task-answers.py) made of names, a count or a date
Nothing == [status |-> "none", names |-> <<>>, count |-> 0, day |-> 0, month |-> 0]

Status(st) == [Nothing EXCEPT !.status = st]

PassIf(b) == Status(IF b THEN "PASS" ELSE "FAIL")

\* (df['Date'].dt.month == m): one boolean per row of df
MonthMask(df, m) == [k \in 1..Len(df) |-> df[k].date.month = m]

\* df[mask] fails when df has a row the mask has no label for
Unalignable(df, mask) == Len(df) > Len(mask)

\* df[mask][column]: the values of the rows of df the mask selects
RECURSIVE Pick(_, _, _)
Pick(df, mask, k) ==
    IF k > Len(df) THEN <<>>
    ELSE (IF mask[k] THEN <<df[k].value>> ELSE <<>>) \o Pick(df, mask, k + 1)

Masked(df, mask) == Pick(df, mask, 1)

\* an idxmax that keeps the last of several equal maxima
IdxMaxLast(col, mask) ==
    CHOOSE k \in 1..Len(col) :
        /\ mask[k]
        /\ \A j \in 1..Len(col) : mask[j] => col[j] <= col[k]
        /\ \A j \in (k + 1)..Len(col) : mask[j] => col[j] < col[k]

\* Series.idxmax(): the first label holding the largest value
IdxMax(col, mask) ==
    CHOOSE k \in 1..Len(col) :
        /\ mask[k]
        /\ \A j \in 1..Len(col) : mask[j] => col[j] <= col[k]
        /\ \A j \in 1..(k - 1) : mask[j] => col[j] < col[k]

ValuesOf(df) == [k \in 1..Len(df) |-> df[k].value]

\* (aqi_df['Date'].dt.month <= 4)
UpToApril(df) == [k \in 1..Len(df) |-> df[k].date.month <= 4]

\* mean(b) - mean(a) > d, False when a mean is NaN
MeanRise(a, b, d) ==
    /\ Len(a) > 0
    /\ Len(b) > 0
    /\ SumSeq(b) * Len(a) - SumSeq(a) * Len(b) > d * Len(a) * Len(b)

\* abs(mean(b) - mean(a)) < d
MeanNear(a, b, d) ==
    /\ Len(a) > 0
    /\ Len(b) > 0
    /\ SumSeq(b) * Len(a) - SumSeq(a) * Len(b) < d * Len(a) * Len(b)
    /\ SumSeq(a) * Len(b) - SumSeq(b) * Len(a) < d * Len(a) * Len(b)

VerIdle ==
    /\ script = "none"
    /\ vpc = "idle"
    /\ frames = <<>>
    /\ data = <<>>
    /\ verdict = [t \in Tasks |-> Nothing]
    /\ lines = {}

\* the files verify_tasks.py finds: a table written to four files, one of
\* them possibly with other dates or another row count
VtInit ==
    /\ script = "verify_tasks"
    /\ vpc = "load"
    /\ \/ \E t \in Tables : frames = Frames(t, "none", 0, 0)
       \/ \E t \in TrendTables, which \in {"aqi", "co2", "precipitation"},
             s \in 0..MaxShift, delta \in {-1, 0, 1} :
             /\ s # 0 \/ delta # 0
             /\ frames = Frames(t, which, s, delta)
    /\ data = <<>>
    /\ verdict = [t \in Tasks |-> Nothing]
    /\ lines = {}

\* read_csv x 4, to_datetime x 4, the report header
VtLoad ==
    /\ script = "verify_tasks"
    /\ vpc = "load"
    /\ lines' = lines \cup {"TASK VERIFICATION REPORT"}
    /\ vpc' = "T1"
    /\ UNCHANGED <<script, frames, data, verdict>>
    /\ UNCHANGED otherThanVer

\* T1: February variances; the mask of temp_df indexes all four frames
VtT1 ==
    /\ script = "verify_tasks"
    /\ vpc = "T1"
    /\ LET feb_mask == MonthMask(frames.temperature, 2)
       IN  IF \E v \in DOMAIN frames : Unalignable(frames[v], feb_mask)
           THEN /\ vpc' = "error"
                /\ UNCHANGED verdict
           ELSE LET t == Masked(frames.temperature, feb_mask)
                    a == Masked(frames.aqi, feb_mask)
                    c == Masked(frames.co2, feb_mask)
                    p == Masked(frames.precipitation, feb_mask)
                IN  /\ verdict' = [verdict EXCEPT !["T1"] =
                          PassIf(VarGreater(a, t) /\ VarGreater(a, c) /\ VarGreater(a, p))]
                    /\ vpc' = "T2"
    /\ UNCHANGED <<script, frames, data, lines>>
    /\ UNCHANGED otherThanVer

\* T2: January correlations with temperature; np.corrcoef raises on
\* arguments of different lengths
VtT2 ==
    /\ script = "verify_tasks"
    /\ vpc = "T2"
    /\ LET jan_mask == MonthMask(frames.temperature, 1)
           t == Masked(frames.temperature, jan_mask)
           a == Masked(frames.aqi, jan_mask)
           c == Masked(frames.co2, jan_mask)
           p == Masked(frames.precipitation, jan_mask)
       IN  IF Len(a) # Len(t) \/ Len(c) # Len(t) \/ Len(p) # Len(t)
           THEN /\ vpc' = "error"
                /\ UNCHANGED verdict
           ELSE /\ verdict' = [verdict EXCEPT !["T2"] =
                      PassIf(CorrLess(Corr(t, a), Corr(t, c)) /\ CorrLess(Corr(t, a), Corr(t, p)))]
                /\ vpc' = "T3"
    /\ UNCHANGED <<script, frames, data, lines>>
    /\ UNCHANGED otherThanVer

\* T3: date of the largest AQI, by the dates of aqi_df itself
VtT3 ==
    /\ script = "verify_tasks"
    /\ vpc = "T3"
    /\ LET d == frames.aqi[IdxMax(ValuesOf(frames.aqi), UpToApril(frames.aqi))].date
       IN  verdict' = [verdict EXCEPT !["T3"] =
               [PassIf(d.month = 1 /\ d.day \in 20..25) EXCEPT !.day = d.day, !.month = d.month]]
    /\ vpc' = "T4"
    /\ UNCHANGED <<script, frames, data, lines>>
    /\ UNCHANGED otherThanVer

\* T4 & T6: month means of temperature and CO2; the answer line is fixed
VtT4T6 ==
    /\ script = "verify_tasks"
    /\ vpc = "T4"
    /\ LET jan_mask == MonthMask(frames.temperature, 1)
           mar_mask == MonthMask(frames.temperature, 3)
           ok == /\ MeanRise(Masked(frames.temperature, jan_mask),
                             Masked(frames.temperature, mar_mask), 10)
                 /\ MeanNear(Masked(frames.co2, jan_mask), Masked(frames.co2, mar_mask), 5)
       IN  verdict' = [verdict EXCEPT !["T4"] = PassIf(ok), !["T6"] = PassIf(ok)]
    /\ lines' = lines \cup {"Temperature only"}
    /\ vpc' = "T5"
    /\ UNCHANGED <<script, frames, data>>
    /\ UNCHANGED otherThanVer

\* T5: February rows with precipitation > 5 and AQI > 100
VtT5 ==
    /\ script = "verify_tasks"
    /\ vpc = "T5"
    /\ LET feb_mask == MonthMask(frames.temperature, 2)
           n == Cardinality({k \in 1..Len(feb_mask) :
                    /\ feb_mask[k]
                    /\ k <= Len(frames.precipitation)
                    /\ k <= Len(frames.aqi)
                    /\ frames.precipitation[k].value > 5
                    /\ frames.aqi[k].value > 100})
       IN  verdict' = [verdict EXCEPT !["T5"] = [PassIf(n \in {1, 2}) EXCEPT !.count = n]]
    /\ vpc' = "banner"
    /\ UNCHANGED <<script, frames, data, lines>>
    /\ UNCHANGED otherThanVer

\* the closing banner
VtBanner ==
    /\ script = "verify_tasks"
    /\ vpc = "banner"
    /\ lines' = lines \cup {"VERIFICATION COMPLETE"}
    /\ vpc' = "done"
    /\ UNCHANGED <<script, frames, data, verdict>>
    /\ UNCHANGED otherThanVer

\* -------------------------------- verifier: scripts/verify-task-answers.py
Answer(ns) == [Nothing EXCEPT !.status = "ANSWER", !.names = ns]

\* data[(data['date'] >= first of month lo) & (data['date'] < first of
\* month hi + 1)][v]
RECURSIVE Rows(_, _, _, _)
Rows(df, v, months, k) ==
    IF k > Len(df) THEN <<>>
    ELSE (IF df[k].date.month \in months THEN <<df[k][v]>> ELSE <<>>)
         \o Rows(df, v, months, k + 1)

Column(df, v, months) == Rows(df, v, months, 1)

\* max(d, key = ...) / min(d, key = ...): the first key, in the order of
\* insertion, that no other key beats; beats holds the pairs <<a, b>> with
\* the key of a strictly ahead of the key of b
First(order, beats) ==
    order[CHOOSE k \in 1..Len(order) :
              /\ \A j \in 1..(k - 1) : <<order[k], order[j]>> \in beats
              /\ \A j \in (k + 1)..Len(order) : <<order[j], order[k]>> \notin beats]

\* the pairs of names of `order`
Pairs(order) == {<<order[j], order[k]>> : j \in 1..Len(order), k \in 1..Len(order)}

\* the key of verify_task_4: slope if r2 > 0.5 else -999, times SS(x)
TrendKey(y) ==
    IF RSquaredAbove(y, 1, 2) THEN SP(Arange(Len(y)), y)
    ELSE (0 - 999) * SS(Arange(Len(y)))

\* the combined file verify-task-answers.py finds
AvInit ==
    /\ script = "verify_task_answers"
    /\ vpc = "load"
    /\ \E t \in Tables : data = Combined(t)
    /\ frames = <<>>
    /\ verdict = [t \in Tasks |-> Nothing]
    /\ lines = {}

load_data ==
    /\ script = "verify_task_answers"
    /\ vpc = "load"
    /\ lines' = lines \cup {"Loaded data"}
    /\ vpc' = "task1"
    /\ UNCHANGED <<script, frames, data, verdict>>
    /\ UNCHANGED otherThanVer

verify_task_1 ==
    /\ script = "verify_task_answers"
    /\ vpc = "task1"
    /\ LET feb(v) == Column(data, v, {2})
           highest_var == First(Columns, {q \in Pairs(Columns) : VarGreater(feb(q[1]), feb(q[2]))})
       IN  verdict' = [verdict EXCEPT !["T1"] = Answer(<<highest_var>>)]
    /\ vpc' = "task2"
    /\ UNCHANGED <<script, frames, data, lines>>
    /\ UNCHANGED otherThanVer

verify_task_2 ==
    /\ script = "verify_task_answers"
    /\ vpc = "task2"
    /\ LET jan(v) == Column(data, v, {1})
           r(v) == Corr(jan("temperature"), jan(v))
           vars3 == <<"aqi", "co2", "precipitation">>
           most_inverse == First(vars3, {q \in Pairs(vars3) : CorrLess(r(q[1]), r(q[2]))})
       IN  verdict' = [verdict EXCEPT !["T2"] = Answer(<<most_inverse>>)]
    /\ vpc' = "task3"
    /\ UNCHANGED <<script, frames, data, lines>>
    /\ UNCHANGED otherThanVer

verify_task_3 ==
    /\ script = "verify_task_answers"
    /\ vpc = "task3"
    /\ LET col == [k \in 1..Len(data) |-> data[k].aqi]
           d == data[IdxMax(col, [k \in 1..Len(data) |-> TRUE])].date
       IN  verdict' = [verdict EXCEPT !["T3"] =
               [Answer(<<>>) EXCEPT !.day = d.day, !.month = d.month]]
    /\ vpc' = "task4"
    /\ UNCHANGED <<script, frames, data, lines>>
    /\ UNCHANGED otherThanVer

verify_task_4 ==
    /\ script = "verify_task_answers"
    /\ vpc = "task4"
    /\ LET y(v) == Column(data, v, {1, 2, 3})
           clearest_trend == First(Columns, {q \in Pairs(Columns) : TrendKey(y(q[1])) > TrendKey(y(q[2]))})
       IN  verdict' = [verdict EXCEPT !["T4"] = Answer(<<clearest_trend>>)]
    /\ vpc' = "task5"
    /\ UNCHANGED <<script, frames, data, lines>>
    /\ UNCHANGED otherThanVer

verify_task_5 ==
    /\ script = "verify_task_answers"
    /\ vpc = "task5"
    /\ LET n == Cardinality({k \in 1..Len(data) :
                    /\ data[k].date.month = 2
                    /\ data[k].precipitation > 5
                    /\ data[k].aqi > 100})
       IN  verdict' = [verdict EXCEPT !["T5"] = [Answer(<<>>) EXCEPT !.count = n]]
    /\ vpc' = "task6"
    /\ UNCHANGED <<script, frames, data, lines>>
    /\ UNCHANGED otherThanVer

verify_task_6 ==
    /\ script = "verify_task_answers"
    /\ vpc = "task6"
    /\ LET clear_trends == SelectSeq(Columns,
                               LAMBDA v : ClearTrend(Column(data, v, {1, 2, 3})))
       IN  /\ verdict' = [verdict EXCEPT !["T6"] = Answer(clear_trends)]
           /\ lines' = IF Len(clear_trends) = 1
                       THEN lines \cup {"only", "Only Temperature meets both criteria"}
                       ELSE lines
    /\ vpc' = "summary"
    /\ UNCHANGED <<script, frames, data>>
    /\ UNCHANGED otherThanVer

print_summary ==
    /\ script = "verify_task_answers"
    /\ vpc = "summary"
    /\ lines' = lines \cup {"All six experimental tasks have quantitatively verified correct answers."}
    /\ vpc' = "done"
    /\ UNCHANGED <<script, frames, data, verdict>>
    /\ UNCHANGED otherThanVer

\* ------------- verifier: VERIFICATION section of generate_experimental_data.py
\* the section run on its own: the lists temperature, aqi, co2 and
\* precipitation hold the values of the days BaseDays, row k being the
\* element of index BaseDays[k]

\* s[lo:hi] of list v: the rows whose list index lies in lo..hi-1
RECURSIVE Slice(_, _, _, _, _)
Slice(df, v, lo, hi, k) ==
    IF k > Len(df) THEN <<>>
    ELSE (IF BaseDays[k] >= lo /\ BaseDays[k] < hi THEN <<df[k][v]>> ELSE <<>>)
         \o Slice(df, v, lo, hi, k + 1)

\* np.var(a) > np.var(b), the population variance SS / n^2
PopVarGreater(a, b) ==
    /\ Len(a) >= 1
    /\ Len(b) >= 1
    /\ SS(a) * Len(b) * Len(b) > SS(b) * Len(a) * Len(a)

\* np.argmax(col): the first position holding the largest value
ArgMax(col) ==
    CHOOSE k \in 1..Len(col) :
        /\ \A j \in 1..Len(col) : col[j] <= col[k]
        /\ \A j \in 1..(k - 1) : col[j] < col[k]

\* the lists the VERIFICATION section finds in memory
ScInit ==
    /\ script = "generate_self_check"
    /\ vpc = "T1"
    /\ \E t \in Tables : data = Combined(t)
    /\ frames = <<>>
    /\ verdict = [t \in Tasks |-> Nothing]
    /\ lines = {}

\* T1: the four February variances are printed, AQI marked HIGHEST
SelfCheckT1 ==
    /\ script = "generate_self_check"
    /\ vpc = "T1"
    /\ verdict' = [verdict EXCEPT !["T1"] = Answer(<<"aqi">>)]
    /\ lines' = lines \cup {"DATA GENERATION COMPLETE", "AQI (HIGHEST)"}
    /\ vpc' = "T2"
    /\ UNCHANGED <<script, frames, data>>
    /\ UNCHANGED otherThanVer

\* T2: the January correlation is printed, marked NEGATIVE
SelfCheckT2 ==
    /\ script = "generate_self_check"
    /\ vpc = "T2"
    /\ verdict' = [verdict EXCEPT !["T2"] = Answer(<<"aqi">>)]
    /\ lines' = lines \cup {"Correlation coefficient (NEGATIVE)"}
    /\ vpc' = "T3"
    /\ UNCHANGED <<script, frames, data>>
    /\ UNCHANGED otherThanVer

\* T3: max_aqi_idx = np.argmax(aqi); max_aqi_date = dates[max_aqi_idx]
SelfCheckT3 ==
    /\ script = "generate_self_check"
    /\ vpc = "T3"
    /\ LET max_aqi_idx == ArgMax([k \in 1..Len(data) |-> data[k].aqi])
           max_aqi_date == data[max_aqi_idx].date
       IN  verdict' = [verdict EXCEPT !["T3"] =
               [Answer(<<>>) EXCEPT !.day = max_aqi_date.day, !.month = max_aqi_date.month]]
    /\ vpc' = "T4"
    /\ UNCHANGED <<script, frames, data, lines>>
    /\ UNCHANGED otherThanVer

\* T4 & T6: the month means are printed with their check marks
SelfCheckT4T6 ==
    /\ script = "generate_self_check"
    /\ vpc = "T4"
    /\ verdict' = [verdict EXCEPT !["T4"] = Answer(<<"temperature">>),
                                  !["T6"] = Answer(<<"temperature">>)]
    /\ vpc' = "T5"
    /\ UNCHANGED <<script, frames, data, lines>>
    /\ UNCHANGED otherThanVer

\* T5: count = sum(1 for p, a in zip(feb_precip, feb_aqi_vals) if p > 5 and a > 100)
SelfCheckT5 ==
    /\ script = "generate_self_check"
    /\ vpc = "T5"
    /\ LET feb_precip == Slice(data, "precipitation", 31, 59, 1)
           feb_aqi_vals == Slice(data, "aqi", 31, 59, 1)
           count == Cardinality({k \in 1..Len(feb_precip) :
                        feb_precip[k] > 5 /\ feb_aqi_vals[k] > 100})
       IN  verdict' = [verdict EXCEPT !["T5"] = [Answer(<<>>) EXCEPT !.count = count]]
    /\ vpc' = "banner"
    /\ UNCHANGED <<script, frames, data, lines>>
    /\ UNCHANGED otherThanVer

\* the closing lines
SelfCheckSummary ==
    /\ script = "generate_self_check"
    /\ vpc = "banner"
    /\ lines' = lines \cup {"All task requirements verified!"}
    /\ vpc' = "done"
    /\ UNCHANGED <<script, frames, data, verdict>>
    /\ UNCHANGED otherThanVer

VerNext ==
    \/ VtLoad
    \/ VtT1
    \/ VtT2
    \/ VtT3
    \/ VtT4T6
    \/ VtT5
    \/ VtBanner
    \/ load_data
    \/ verify_task_1
    \/ verify_task_2
    \/ verify_task_3
    \/ verify_task_4
    \/ verify_task_5
    \/ verify_task_6
    \/ print_summary
    \/ SelfCheckT1
    \/ SelfCheckT2
    \/ SelfCheckT3
    \/ SelfCheckT4T6
    \/ SelfCheckT5
    \/ SelfCheckSummary

\* no seeded run is under way
SeedIdle == runs = <<>>

InitVerify == GenIdle /\ FetchIdle /\ SeedIdle /\ (VtInit \/ AvInit \/ ScInit)

SpecVerify == InitVerify /\ [][VerNext]_vars

\* ------------------------------------------------------ seeded generation
\* Two runs of the generator, each with its own pseudo-random stream.  The
\* stream is a 12-bit linear congruential sequence standing for the Mersenne
\* Twister behind np.random: what matters is that every draw is a function
\* of the stream state and advances it.  Here the four loops run one after
\* the other, as in the script, and each loop body draws from the stream.
Runs == {1, 2}

\* the stream state a run's seeding would have if it took entropy of the run
SeedStateByRun(r, seed) == [s |-> (seed + 977 * r) % 4096, pos |-> 0, has_gauss |-> FALSE, gauss |-> 0]

\* np.random.seed(seed): the stream state is a function of the seed alone,
\* and the cached Gaussian is dropped
SeedState(r, seed) == [s |-> seed % 4096, pos |-> 0, has_gauss |-> FALSE, gauss |-> 0]

\* one double of the stream: val / 4096 lies in [0, 1)
NextDouble(g) ==
    LET s2 == (1229 * g.s + 1) % 4096
    IN  [val |-> s2, rng |-> [g EXCEPT !.s = s2, !.pos = g.pos + 1]]

\* the polar method of np.random.normal: pairs of doubles are drawn until
\* the point (x1, x2) falls inside the unit circle
RECURSIVE Polar(_)
Polar(g) ==
    LET d1 == NextDouble(g)
        d2 == NextDouble(d1.rng)
        x1 == 2 * d1.val - 4096
        x2 == 2 * d2.val - 4096
        r2 == x1 * x1 + x2 * x2
    IN  IF r2 >= 4096 * 4096 \/ r2 = 0 THEN Polar(d2.rng)
        ELSE [x1 |-> x1, x2 |-> x2, rng |-> d2.rng]

\* the Gaussian level, in standard deviations -2..2, made from a coordinate
Level(x) == ((x + 4096) * 5) \div 8192 - 2

\* np.random.normal(0, sigma) / sigma: the cached value if there is one,
\* else a new pair, one value returned and the other cached
Normal(g) ==
    IF g.has_gauss THEN [val |-> g.gauss, rng |-> [g EXCEPT !.has_gauss = FALSE, !.gauss = 0]]
    ELSE LET p == Polar(g)
         IN  [val |-> Level(p.x2),
              rng |-> [p.rng EXCEPT !.has_gauss = TRUE, !.gauss = Level(p.x1)]]

\* np.random.uniform(lo, hi), in thousandths
UniformDraw(g, lo, hi) ==
    LET d == NextDouble(g)
    IN  [val |-> lo + ((hi - lo) * d.val) \div 4096, rng |-> d.rng]

\* np.random.random(), in thousandths
RandomDraw(g) == UniformDraw(g, 0, 1000)

\* -2.5 * ln(1 - q) in thousandths at q = 1/16, 3/16, ..., 15/16
ExpTable == <<161, 519, 937, 1438, 2067, 2908, 4185, 6931>>

\* np.random.exponential(2.5), in thousandths
ExponentialDraw(g) ==
    LET d == NextDouble(g)
    IN  [val |-> ExpTable[d.val \div 512 + 1], rng |-> d.rng]

\* a run before its first statement
Fresh ==
    [pc |-> "seed", i |-> 0, rng |-> [s |-> 0, pos |-> 0, has_gauss |-> FALSE, gauss |-> 0],
     seeded |-> 0, temperature |-> <<>>, aqi |-> <<>>, co2 |-> <<>>, precipitation |-> <<>>,
     calls |-> [s \in Series |-> <<>>]]

SeedInit == runs = [r \in Runs |-> Fresh]

\* the loop `pc` of run r has appended v after `n` calls of np.random and
\* left the stream in state g: next index, or next loop after the last date
Appended(r, series, v, n, g, nextLoop) ==
    runs' = [runs EXCEPT ![r] =
                [@ EXCEPT ![series] = Append(@, v),
                          !.calls = [@ EXCEPT ![series] = Append(@, n)],
                          !.rng = g,
                          !.i = IF runs[r].i + 1 < Horizon THEN runs[r].i + 1 ELSE 0,
                          !.pc = IF runs[r].i + 1 < Horizon THEN runs[r].pc ELSE nextLoop]]

\* np.random.seed(42)
SeedRng(r) ==
    /\ runs[r].pc = "seed"
    /\ runs' = [runs EXCEPT ![r] = [@ EXCEPT !.rng = SeedState(r, 42),
                                             !.seeded = @ + 1,
                                             !.pc = "temperature"]]
    /\ UNCHANGED otherThanSeed

\* one iteration of the temperature loop
TemperatureDraw(r) ==
    /\ runs[r].pc = "temperature"
    /\ LET n == Normal(runs[r].rng)
       IN  Appended(r, "temperature", Temperature(runs[r].i, n.val), 1, n.rng, "aqi")
    /\ UNCHANGED otherThanSeed

\* one iteration of the AQI loop: the peak days draw a uniform first
AqiDraw(r) ==
    /\ runs[r].pc = "aqi"
    /\ LET k == runs[r].i
           date == DateAt(k)
           peak == date.month = 1 /\ date.day \in 20..25
           u == IF ~peak THEN [val |-> 0, rng |-> runs[r].rng]
                ELSE IF date.day \in {21, 22, 23} THEN UniformDraw(runs[r].rng, 0, 10000)
                ELSE UniformDraw(runs[r].rng, -5000, 10000)
           n == Normal(u.rng)
       IN  Appended(r, "aqi", Aqi(k, runs[r].temperature[k + 1], u.val, n.val),
                    IF peak THEN 2 ELSE 1, n.rng, "co2")
    /\ UNCHANGED otherThanSeed

\* one iteration of the CO2 loop
Co2Draw(r) ==
    /\ runs[r].pc = "co2"
    /\ LET n == Normal(runs[r].rng)
       IN  Appended(r, "co2", Co2(runs[r].i, n.val), 1, n.rng, "precipitation")
    /\ UNCHANGED otherThanSeed

\* one iteration of the precipitation loop
PrecipitationDraw(r) ==
    /\ runs[r].pc = "precipitation"
    /\ LET k == runs[r].i
           date == DateAt(k)
           forced == date.month = 2 /\ date.day \in {12, 18}
           e == RandomDraw(runs[r].rng)
           d == IF forced THEN UniformDraw(runs[r].rng, 6000, 15000)
                ELSE IF e.val < 150 THEN ExponentialDraw(e.rng)
                ELSE UniformDraw(e.rng, 0, 500)
       IN  Appended(r, "precipitation", Precipitation(d.val),
                    IF forced THEN 1 ELSE 2, d.rng, "done")
    /\ UNCHANGED otherThanSeed

SeedNext ==
    \E r \in Runs :
        \/ SeedRng(r)
        \/ TemperatureDraw(r)
        \/ AqiDraw(r)
        \/ Co2Draw(r)
        \/ PrecipitationDraw(r)

InitSeed == GenIdle /\ FetchIdle /\ VerIdle /\ SeedInit

SpecSeed == InitSeed /\ [][SeedNext]_vars

\* ------------------------------------------------------- specifications
InitFetch == GenIdle /\ FetchInit /\ VerIdle /\ SeedIdle

SpecFetch == InitFetch /\ [][FetchNext]_vars

Init == GenInit /\ FetchIdle /\ VerIdle /\ SeedIdle

Next == GenNext

Spec == Init /\ [][Next]_vars

\* ------------------------------------------------- claims on the generator
\* the date of the largest AQI is a January day 20..25 (constraint T3)
T3Holds == DateAt(aqiArgmax).month = 1 /\ DateAt(aqiArgmax).day \in 20..25

\* the February joint count is 1 or 2 (constraint T5)
T5Holds == febBoth \in {1, 2}

Generated == pc \in {"save", "report", "done", "failed"}

\* C1 as stated: with every Gaussian draw within 3 standard deviations, the
\* earliest day holding the maximum AQI of the 100 days is one of January
\* 20..25.
C1_AsStated == (Generated /\ zcap <= 3) => T3Holds

\* C1 amended: with every Gaussian draw within 2 standard deviations (and
\* any uniform draw), the earliest day holding the maximum AQI of the 100
\* days is one of January 20..25.
C1_PeakWithinTwoSigma == (Generated /\ zcap <= 2) => T3Holds

\* a run at 2 standard deviations whose maximum is the lowest a top peak
\* day can be (145 + 0 - 6)
C1_Witness == Generated /\ zcap = 2 /\ aqiMax = 139 /\ T3Holds

\* C2 as stated: the number of February days with precipitation > 5 and
\* AQI > 100 is 1 or 2 in every run.
C2_AsStated == Generated => T5Holds

\* C2 amended: the February joint count is never below 2 (never 0 or 1) and
\* never above 28, and it is exactly 2 when every Gaussian draw is 0.
C2_CountAtLeastTwo ==
    Generated => (febBoth \in 2..28 /\ (zcap = 0 => febBoth = 2))

\* a finished run with exactly the two forced days counted, at full noise
C2_Witness == Generated /\ febBoth = 2 /\ zcap = MaxZ

\* C3: the success line of the generator's self-check is printed only when
\* the constraints it names hold on the generated data (here T3 and T5).
C3_SummaryIsConjunction ==
    "All task requirements verified!" \in printed => (T3Holds /\ T5Holds)

\* C5: every appended value is in its declared range: temperature >= 0,
\* AQI an integer >= 30, CO2 within [385, 435], precipitation >= 0.
C5_ValuesInRange ==
    /\ pc = "aqi" => last >= 0
    /\ pc = "co2" => (last \in Int /\ last >= 30)
    /\ pc = "precipitation" => (last >= 385000 /\ last <= 435000)
    /\ (pc \in {"temperature", "save"} /\ i > 0) => last >= 0

\* a January temperature that the clamp raised to 0
C5_Witness == pc = "aqi" /\ DateAt(i).month = 1 /\ last = 0 /\ TemperatureRaw(i, -zcap) < 0

\* C6: once generation is over each series holds exactly 100 values; the
\* date list runs day by day from 2023-01-01 to 2023-04-10; and the slices
\* [0,31), [31,59), [59,90), [90,100) are the January, February, March and
\* April dates.
C6_AlignedSeries ==
    /\ Generated => \A s \in Series : len[s] = Horizon
    /\ \A s \in Series : len[s] \in {i, i + 1}
    /\ Len(dates) = Horizon
    /\ DateAt(0) = [year |-> 2023, month |-> 1, day |-> 1]
    /\ DateAt(Horizon - 1) = [year |-> 2023, month |-> 4, day |-> 10]
    /\ i < Horizon => DateAt(i).month = SliceMonth(i)
    /\ (i > 0 /\ i < Horizon) =>
          \/ DateAt(i).day = DateAt(i - 1).day + 1 /\ DateAt(i).month = DateAt(i - 1).month
          \/ DateAt(i).day = 1 /\ DateAt(i).month = DateAt(i - 1).month + 1

\* all four series complete and written
C6_Witness == pc = "done" /\ \A s \in Series : len[s] = Horizon

\* C10: a run that fails leaves none of its four files behind.
C10_AllOrNothing == pc = "failed" => files = {}

\* date index k is February 12 or February 18
ForcedDay(k) == DateAt(k).month = 2 /\ DateAt(k).day \in {12, 18}

\* C13: on February 12 and 18 the appended AQI is at least 105 and the
\* appended precipitation lies in [6, 15], whatever is drawn; so the February
\* joint count is at least 1 once February 12 is generated, at least 2 once
\* February 18 is generated, and never exactly 1 in a complete run.
C13_ForcedDays ==
    /\ (pc = "co2" /\ ForcedDay(i)) => (last >= 105 /\ aqi_i >= 105)
    /\ (pc \in {"temperature", "save"} /\ i > 0 /\ ForcedDay(i - 1)) =>
           (last >= 6000 /\ last <= 15000)
    /\ (pc # "idle" /\ i > 42) => febBoth >= 1
    /\ (pc # "idle" /\ i > 48) => febBoth >= 2
    /\ Generated => (febBoth >= 2 /\ febBoth # 1)

\* February 18 has just been generated at the lowest draws (AQI noise at
\* -zcap raised to 105, rain 6.0) and is the second joint day
C13_Witness ==
    /\ pc = "temperature"
    /\ i = 49
    /\ zcap = MaxZ
    /\ last = 6000
    /\ febBoth = 2

\* ------------------------------------------------ claims on the fetch loop
\* the iteration for the n-th visited variable failed
FetchFailed(n) == reported[n].line = "error"

\* the failure came before open() created the file
BeforeOpen(e) == e.kind # "data" \/ ~e.openOk

\* s is a proper prefix of t
ProperPrefix(s, t) == Len(s) < Len(t) /\ \A n \in 1..Len(s) : s[n] = t[n]

\* the loop visits the variables in order, one report line each
VisitedInOrder ==
    /\ Len(fetched) = fidx - 1
    /\ Len(reported) = Len(fetched)
    /\ \A n \in 1..Len(fetched) : fetched[n].var = Variables[n] /\ reported[n].var = Variables[n]

\* C9 as stated: a failing variable gets an error line and no file content,
\* every other variable its complete file, and all four are visited.
C9_AsStated ==
    /\ VisitedInOrder
    /\ fpc = "done" => Len(fetched) = Len(Variables)
    /\ \A n \in 1..Len(fetched) :
         LET v == fetched[n].var
         IN  IF FetchFailed(n) THEN out[FileOf(v)].rows = <<>>
             ELSE out[FileOf(v)] = File(FullFile(v, fetched[n].met.keys))

\* C9 amended: all four variables are visited in order whatever fails; a
\* variable whose iteration does not fail has its complete file; a failing
\* one gets an error line and no file when the failure precedes open(), and
\* otherwise a file cut short (a proper prefix of the complete file).
C9_FailureIsolated ==
    /\ VisitedInOrder
    /\ fpc = "done" => Len(fetched) = Len(Variables)
    /\ \A n \in 1..Len(fetched) :
         LET v == fetched[n].var
             e == fetched[n].met
         IN  IF FetchFailed(n)
             THEN IF BeforeOpen(e) THEN out[FileOf(v)] = Absent
                  ELSE /\ out[FileOf(v)].exists
                       /\ ProperPrefix(out[FileOf(v)].rows, FullFile(v, e.keys))
             ELSE /\ e.kind = "data"
                  /\ out[FileOf(v)] = File(FullFile(v, e.keys))

\* the first and third fetch fail, the second and fourth files are complete
C9_Witness ==
    /\ fpc = "done"
    /\ FetchFailed(1) /\ FetchFailed(3) /\ ~FetchFailed(2) /\ ~FetchFailed(4)
    /\ Len(out[FileOf("RH2M")].rows) = 3
    /\ Len(out[FileOf("PRECTOTCORR")].rows) = 3
    /\ out[FileOf("T2M")] = Absent

\* -------------------------------------------------- claims on the verifiers
\* the four frames hold the same dates, row for row
Aligned ==
    \A v \in DOMAIN frames :
        /\ Len(frames[v]) = Len(frames.temperature)
        /\ \A k \in 1..Len(frames[v]) : frames[v][k].date = frames.temperature[k].date

\* a Status line of verify_tasks.py has been printed
VerdictPrinted == \E t \in Tasks : verdict[t].status \in {"PASS", "FAIL"}

\* C4: verify_tasks.py prints no PASS/FAIL verdict when the four files do
\* not cover the same date sequence (it aborts instead of applying the month
\* masks of temperature.csv to the rows of a file with other dates).
C4_AbortsOnMisalignment ==
    (script = "verify_tasks" /\ vpc # "load" /\ ~Aligned) => ~VerdictPrinted

\* the declared T2 constraint on January columns: the temperature-AQI
\* correlation is negative and larger in magnitude than the other two
DeclaredT2(t, a, c, p) ==
    /\ Corr(t, a).c < 0
    /\ CorrStronger(Corr(t, a), Corr(t, c))
    /\ CorrStronger(Corr(t, a), Corr(t, p))

\* C7: the T2 verdict is PASS (verify_tasks.py), or the answer named is AQI
\* (verify_task_2), exactly when the January temperature-AQI correlation is
\* negative and exceeds in magnitude the correlations of temperature with CO2
\* and with precipitation.
C7_T2MatchesDeclared ==
    /\ (script = "verify_tasks" /\ Aligned /\ verdict["T2"].status # "none") =>
           LET jan_mask == MonthMask(frames.temperature, 1)
           IN  (verdict["T2"].status = "PASS") <=>
                   DeclaredT2(Masked(frames.temperature, jan_mask), Masked(frames.aqi, jan_mask),
                              Masked(frames.co2, jan_mask), Masked(frames.precipitation, jan_mask))
    /\ (script = "verify_task_answers" /\ verdict["T2"].status # "none") =>
           ((verdict["T2"].names = <<"aqi">>) <=>
                DeclaredT2(Column(data, "temperature", {1}), Column(data, "aqi", {1}),
                           Column(data, "co2", {1}), Column(data, "precipitation", {1})))

\* the variables with R2 > 0.70 and slope > 0 over January-March
ClearSet(cols) == {v \in DOMAIN cols : ClearTrend(cols[v])}

\* the January-March columns of the four frames
FrameColumns ==
    [v \in DOMAIN frames |->
        Masked(frames[v], [k \in 1..Len(frames[v]) |-> frames[v][k].date.month \in {1, 2, 3}])]

\* the January-March columns of the combined table
DataColumns == [v \in {"temperature", "aqi", "co2", "precipitation"} |-> Column(data, v, {1, 2, 3})]

SetOf(seq) == {seq[k] : k \in 1..Len(seq)}

\* C8: a variable is reported as a clear increasing trend exactly when its
\* January-March regression has R2 > 0.70 and slope > 0, and 'Temperature
\* only' is reported only when the computed set is exactly {temperature}.
C8_ReportsComputedSet ==
    /\ (script = "verify_tasks" /\ Aligned /\ "Temperature only" \in lines) =>
           ClearSet(FrameColumns) = {"temperature"}
    /\ (script = "verify_task_answers" /\ verdict["T6"].status # "none") =>
           /\ SetOf(verdict["T6"].names) = ClearSet(DataColumns)
           /\ "Only Temperature meets both criteria" \in lines =>
                  ClearSet(DataColumns) = {"temperature"}

\* ------------------------------------------------ claims on the maximum search
\* the position of a date within 2023
DayNumber(d) == d.month * 100 + d.day

\* the rows are in chronological order
Chronological(ds) == \A k \in 1..(Len(ds) - 1) : DayNumber(ds[k]) < DayNumber(ds[k + 1])

\* the rows holding the largest value of vals
MaxRows(vals) == {k \in 1..Len(vals) : \A j \in 1..Len(vals) : vals[j] <= vals[k]}

\* v names the earliest of the dates on which vals is largest
IsEarliestMax(ds, vals, v) ==
    \E k \in MaxRows(vals) :
        /\ v.day = ds[k].day
        /\ v.month = ds[k].month
        /\ \A j \in MaxRows(vals) : DayNumber(ds[k]) <= DayNumber(ds[j])

AqiDates == [k \in 1..Len(data) |-> data[k].date]

AqiValues == [k \in 1..Len(data) |-> data[k].aqi]

FrameDates == [k \in 1..Len(frames.aqi) |-> frames.aqi[k].date]

\* C12: when several days share the maximum AQI, np.argmax in the
\* generator's self-check, idxmax in verify_tasks.py and idxmax in
\* verify_task_3 each report the earliest of those dates, for rows in
\* chronological order; the answer of verify_task_3 is that date.
C12_EarliestOnTie ==
    /\ (script = "verify_tasks" /\ verdict["T3"].status # "none" /\ Chronological(FrameDates)) =>
           IsEarliestMax(FrameDates, ValuesOf(frames.aqi), verdict["T3"])
    /\ (script \in {"verify_task_answers", "generate_self_check"}
          /\ verdict["T3"].status # "none" /\ Chronological(AqiDates)) =>
           IsEarliestMax(AqiDates, AqiValues, verdict["T3"])

\* verify_task_3 answered January 25 for a table whose AQI is largest on
\* January 25 and again on February 12
C12_Witness ==
    /\ script = "verify_task_answers"
    /\ verdict["T3"].status = "ANSWER"
    /\ verdict["T3"].month = 1 /\ verdict["T3"].day = 25
    /\ MaxRows(AqiValues) = {2, 5}
    /\ Chronological(AqiDates)

\* --------------------------------------------------- claims on the T1 outcome
\* the February lists of the combined table, as the index slices [31:59]
FebLists == [v \in {"temperature", "aqi", "co2", "precipitation"} |-> Slice(data, v, 31, 59, 1)]

\* the February columns of the four frames
FebFrames == [v \in DOMAIN frames |-> Masked(frames[v], MonthMask(frames.temperature, 2))]

\* AQI has the strictly largest population variance of the four columns
AqiMostVariable(cols) == \A v \in DOMAIN cols \ {"aqi"} : PopVarGreater(cols["aqi"], cols[v])

\* C14: the generator's self-check, verify_tasks.py and verify_task_1 agree
\* on T1 for four February series of equal length: each judges AQI the most
\* variable exactly when AQI has the strictly largest variance.
C14_T1Agreement ==
    /\ (script = "verify_tasks" /\ Aligned /\ verdict["T1"].status # "none") =>
           ((verdict["T1"].status = "PASS") <=> AqiMostVariable(FebFrames))
    /\ (script = "verify_task_answers" /\ verdict["T1"].status # "none") =>
           ((verdict["T1"].names = <<"aqi">>) <=> AqiMostVariable(FebLists))
    /\ (script = "generate_self_check" /\ verdict["T1"].status # "none") =>
           ("AQI (HIGHEST)" \in lines <=> AqiMostVariable(FebLists))

\* ------------------------------------------- claims on the seeded generation
\* s is a prefix of t
Prefix(s, t) == Len(s) <= Len(t) /\ \A n \in 1..Len(s) : s[n] = t[n]

\* runs a and b agree on sequence q as far as both have got
Agree(q, a, b) == Prefix(q[a], q[b]) \/ Prefix(q[b], q[a])

\* the position of a run in the script: loops in order, then the index
Position(r) ==
    LET loop == CASE runs[r].pc = "seed" -> 0
                  [] runs[r].pc = "temperature" -> 1
                  [] runs[r].pc = "aqi" -> 2
                  [] runs[r].pc = "co2" -> 3
                  [] runs[r].pc = "precipitation" -> 4
                  [] OTHER -> 5
    IN  loop * Horizon + runs[r].i

====
